---- MODULE Spec2Model ----
(***************************************************************************)
(* Model of learn-wgpu (src/src/lib.rs): the State aggregate (surface,     *)
(* device, queue, config, size), its methods new / resize / input /        *)
(* update / render, and the closure that run() hands to the winit event    *)
(* loop.  The window system (winit) and the graphics backend (wgpu) are    *)
(* the environment: they choose the window's inner size, the outcome of    *)
(* the adapter / device requests, the supported formats, the events that   *)
(* are delivered and the result of every get_current_texture call.         *)
(***************************************************************************)
EXTENDS Integers, Sequences, FiniteSets, TLC

\* Largest window dimension the environment reports (dimensions are 0..MaxDim).
MaxDim == 2
\* Number of complete event-loop iterations after the first one.
MaxTicks == 1

VARIABLES
    phase,             \* "start" | "running" | "exited" | "aborted" (panic)
    state,             \* `let mut state` of run(): the State struct
    control_flow,      \* the closure's `control_flow` out-parameter
    stage,             \* position of the event loop in its iteration
    redraw_requested,  \* window.request_redraw() was called and not yet served
    ticks,             \* completed iterations of the event loop
    calls,             \* backend / hook calls made by the last handled event, in order
    last,              \* the last event handed to the closure, with render's result
    last_resize,       \* argument of the most recent State::resize call
    reported,          \* size of the latest non-zero resize event (seen), else the initial inner size
    exit_by,           \* kind of the event whose handling first set Exit
    renders,           \* number of State::render calls so far
    last_render        \* what the most recent State::render call returned

vars == <<phase, state, control_flow, stage, redraw_requested, ticks, calls,
          last, last_resize, reported, exit_by, renders, last_render>>

----------------------------------------------------------------------------
(* Values *)

Dim == 0..MaxDim

PhysicalSize == [width : Dim, height : Dim]

Size(w, h) == [width |-> w, height |-> h]

NonZero(sz) == sz.width > 0 /\ sz.height > 0

\* Number of occurrences of x in the sequence s.
Count(s, x) == Cardinality({i \in DOMAIN s : s[i] = x})

\* Whether x occurs in the sequence s.
Has(s, x) == \E i \in DOMAIN s : s[i] = x

\* wgpu::SurfaceError
SurfaceError == {"Timeout", "Outdated", "Lost", "OutOfMemory"}

\* What surface.get_current_texture() can answer.
AcquireResult == {"Ok"} \cup SurfaceError

\* Lists that surface.get_supported_formats(&adapter) can return.  The adapter
\* was requested with compatible_surface: Some(&surface), so the list is not
\* empty.
FormatLists == { <<"Bgra8UnormSrgb", "Rgba8UnormSrgb">> }

NoConfig == [usage |-> "-", format |-> "-", width |-> 0, height |-> 0,
             present_mode |-> "-"]

\* The struct before State::new has run.
\* surface.acquired counts the textures get_current_texture has handed out (the
\* n-th texture is frame n), surface.presented the present() calls and
\* surface.shown the frame last presented; queue.submitted counts the command
\* buffers submitted and queue.target is the frame the last one draws to.
NoState == [surface |-> [configured |-> FALSE, config |-> NoConfig,
                         acquired |-> 0, presented |-> 0, shown |-> 0],
            device  |-> "-",
            queue   |-> [submitted |-> 0, target |-> 0],
            config  |-> NoConfig,
            size    |-> Size(0, 0)]

\* Events handed to the closure.  Fields a kind does not carry hold "-" / 0x0.
Ev(kind, size, st, key) ==
    [kind |-> kind, size |-> size, state |-> st, virtual_keycode |-> key]

PlainEv(kind) == Ev(kind, Size(0, 0), "-", "-")

ElementState == {"Pressed", "Released"}

\* Some(Escape), Some(another key), None
VirtualKeyCode == {"Escape", "Space", "None"}

\* WindowEvent values for this window
WindowEvents ==
    {PlainEv("CloseRequested"), PlainEv("Focused")}
    \cup {Ev("KeyboardInput", Size(0, 0), s, k) : s \in ElementState, k \in VirtualKeyCode}
    \cup {Ev(k, sz, "-", "-") : k \in {"Resized", "ScaleFactorChanged"}, sz \in PhysicalSize}

IsWindowEvent(event) ==
    event.kind \in {"CloseRequested", "Focused", "KeyboardInput", "Resized",
                    "ScaleFactorChanged"}

----------------------------------------------------------------------------
(* The graphics backend *)

\* A config with a zero dimension is a fatal backend error (lib.rs:203).
ZeroArea(config) == config.width = 0 \/ config.height = 0

\* surface.configure(&device, &config)
configure(surface, config) ==
    [surface EXCEPT !.configured = TRUE, !.config = config]

\* The process has died in the backend: a zero-area config was submitted.
Fatal(self) == self.surface.configured /\ ZeroArea(self.surface.config)

----------------------------------------------------------------------------
(* impl State *)

\* State::new with the device request's error dropped instead of unwrapped.
new_device_unchecked(inner_size, adapter, device, formats) ==
    IF ~adapter THEN
        [outcome |-> "panic", self |-> NoState,
         calls |-> <<"create_surface", "request_adapter">>]
    ELSE
        LET config == [usage |-> "RENDER_ATTACHMENT",
                       format |-> formats[1],
                       width |-> inner_size.width,
                       height |-> inner_size.height,
                       present_mode |-> "Fifo"]
            self == [surface |-> configure(NoState.surface, config),
                     device  |-> IF device THEN "Device" ELSE "-",
                     queue   |-> NoState.queue,
                     config  |-> config,
                     size    |-> inner_size]
        IN  [outcome |-> IF ZeroArea(config) THEN "panic" ELSE "ok",
             self |-> self,
             calls |-> <<"create_surface", "request_adapter", "request_device",
                         "get_supported_formats", "configure">>]

\* State::new: the result, with outcome "panic" where an unwrap, the index
\* [0] or the backend aborts the process.
new(inner_size, adapter, device, formats) ==
    IF ~adapter THEN
        [outcome |-> "panic", self |-> NoState,
         calls |-> <<"create_surface", "request_adapter">>]
    ELSE IF ~device THEN
        [outcome |-> "panic", self |-> NoState,
         calls |-> <<"create_surface", "request_adapter", "request_device">>]
    ELSE IF formats = <<>> THEN
        [outcome |-> "panic", self |-> NoState,
         calls |-> <<"create_surface", "request_adapter", "request_device",
                     "get_supported_formats">>]
    ELSE
        LET config == [usage |-> "RENDER_ATTACHMENT",
                       format |-> formats[1],
                       width |-> inner_size.width,
                       height |-> inner_size.height,
                       present_mode |-> "Fifo"]
            self == [surface |-> configure(NoState.surface, config),
                     device  |-> "Device",
                     queue   |-> NoState.queue,
                     config  |-> config,
                     size    |-> inner_size]
        IN  [outcome |-> IF ZeroArea(config) THEN "panic" ELSE "ok",
             self |-> self,
             calls |-> <<"create_surface", "request_adapter", "request_device",
                         "get_supported_formats", "configure">>]

\* resize with the guard `||` in place of `&&`.
resize_either_dimension(self, new_size) ==
    IF new_size.width > 0 \/ new_size.height > 0 THEN
        LET config == [self.config EXCEPT !.width = new_size.width,
                                          !.height = new_size.height]
        IN  [self EXCEPT !.size = new_size,
                         !.config = config,
                         !.surface = configure(self.surface, config)]
    ELSE self

\* resize that forgets `self.config.height = new_size.height`.
resize_width_only(self, new_size) ==
    IF new_size.width > 0 /\ new_size.height > 0 THEN
        LET config == [self.config EXCEPT !.width = new_size.width]
        IN  [self EXCEPT !.size = new_size,
                         !.config = config,
                         !.surface = configure(self.surface, config)]
    ELSE self

\* resize that calls surface.configure before it updates self.config.
resize_configure_first(self, new_size) ==
    IF new_size.width > 0 /\ new_size.height > 0 THEN
        LET config == [self.config EXCEPT !.width = new_size.width,
                                          !.height = new_size.height]
        IN  [self EXCEPT !.size = new_size,
                         !.config = config,
                         !.surface = configure(self.surface, self.config)]
    ELSE self

\* resize that forgets self.surface.configure.
resize_without_configure(self, new_size) ==
    IF new_size.width > 0 /\ new_size.height > 0 THEN
        LET config == [self.config EXCEPT !.width = new_size.width,
                                          !.height = new_size.height]
        IN  [self EXCEPT !.size = new_size,
                         !.config = config]
    ELSE self

\* resize that builds the config anew, with the default present mode.
resize_fresh_config(self, new_size) ==
    IF new_size.width > 0 /\ new_size.height > 0 THEN
        LET config == [usage |-> self.config.usage,
                       format |-> self.config.format,
                       width |-> new_size.width,
                       height |-> new_size.height,
                       present_mode |-> "Immediate"]
        IN  [self EXCEPT !.size = new_size,
                         !.config = config,
                         !.surface = configure(self.surface, config)]
    ELSE self

\* resize that forgets `self.size = new_size`.
resize_keeps_size(self, new_size) ==
    IF new_size.width > 0 /\ new_size.height > 0 THEN
        LET config == [self.config EXCEPT !.width = new_size.width,
                                          !.height = new_size.height]
        IN  [self EXCEPT !.config = config,
                         !.surface = configure(self.surface, config)]
    ELSE self

\* State::resize: the struct after the call.
resize(self, new_size) ==
    IF new_size.width > 0 /\ new_size.height > 0 THEN
        LET config == [self.config EXCEPT !.width = new_size.width,
                                          !.height = new_size.height]
        IN  [self EXCEPT !.size = new_size,
                         !.config = config,
                         !.surface = configure(self.surface, config)]
    ELSE self

\* The backend calls State::resize makes.
resize_calls(self, new_size) ==
    IF new_size.width > 0 /\ new_size.height > 0 THEN <<"configure">> ELSE <<>>

\* input that captures keyboard events.
input_consumes_keys(self, event) ==
    [self |-> self, consumed |-> event.kind = "KeyboardInput"]

\* State::input: the struct after the call and the bool returned.
input(self, event) == [self |-> self, consumed |-> FALSE]

\* update that re-reads a size and stores an empty one.
update_clears_size(self) == [self EXCEPT !.size = Size(0, 0)]

\* State::update
update(self) == self

\* render that forgets output.present().
render_without_present(self, acquire) ==
    IF acquire # "Ok" THEN
        [self |-> self, result |-> acquire, calls |-> <<"get_current_texture">>]
    ELSE
        LET output == self.surface.acquired + 1
        IN
        [self |-> [self EXCEPT !.surface.acquired = output,
                               !.queue.submitted = @ + 1,
                               !.queue.target = output],
         result |-> "Ok",
         calls |-> <<"get_current_texture", "create_view", "create_command_encoder",
                     "begin_render_pass", "finish", "submit">>]

\* render that forgets self.queue.submit.
render_without_submit(self, acquire) ==
    IF acquire # "Ok" THEN
        [self |-> self, result |-> acquire, calls |-> <<"get_current_texture">>]
    ELSE
        LET output == self.surface.acquired + 1
        IN
        [self |-> [self EXCEPT !.surface.acquired = output,
                               !.surface.presented = @ + 1,
                               !.surface.shown = output],
         result |-> "Ok",
         calls |-> <<"get_current_texture", "create_view", "create_command_encoder",
                     "begin_render_pass", "finish", "present">>]

\* State::render, where `acquire` is what get_current_texture answers.
render(self, acquire) ==
    IF acquire # "Ok" THEN
        [self |-> self, result |-> acquire, calls |-> <<"get_current_texture">>]
    ELSE
        LET output == self.surface.acquired + 1
        IN
        [self |-> [self EXCEPT !.surface.acquired = output,
                               !.queue.submitted = @ + 1,
                               !.queue.target = output,
                               !.surface.presented = @ + 1,
                               !.surface.shown = output],
         result |-> "Ok",
         calls |-> <<"get_current_texture", "create_view", "create_command_encoder",
                     "begin_render_pass", "finish", "submit", "present">>]

----------------------------------------------------------------------------
(* run(): the closure given to event_loop.run *)

Handled(self, cf, cs, redraw, result) ==
    [state |-> self, control_flow |-> cf, calls |-> cs,
     request_redraw |-> redraw, result |-> result]

\* The window-event arms with the `state: ElementState::Pressed` pattern left
\* out, so that releasing Escape exits too.
window_event_arm_any_escape(event, self, cf) ==
    IF \/ event.kind = "CloseRequested"
       \/ /\ event.kind = "KeyboardInput"
          /\ event.virtual_keycode = "Escape"
    THEN [state |-> self, control_flow |-> "Exit", calls |-> <<>>,
          request_redraw |-> FALSE, result |-> "-"]
    ELSE IF event.kind \in {"Resized", "ScaleFactorChanged"}
    THEN [state |-> resize(self, event.size), control_flow |-> cf,
          calls |-> <<"resize">> \o resize_calls(self, event.size),
          request_redraw |-> FALSE, result |-> "-"]
    ELSE [state |-> self, control_flow |-> cf, calls |-> <<>>,
          request_redraw |-> FALSE, result |-> "-"]

\* The arms of `match event` for a window event that input() did not consume.
window_event_arm(event, self, cf) ==
    IF \/ event.kind = "CloseRequested"
       \/ /\ event.kind = "KeyboardInput"
          /\ event.state = "Pressed"
          /\ event.virtual_keycode = "Escape"
    THEN Handled(self, "Exit", <<>>, FALSE, "-")
    ELSE IF event.kind \in {"Resized", "ScaleFactorChanged"}
    THEN Handled(resize(self, event.size), cf,
                 <<"resize">> \o resize_calls(self, event.size), FALSE, "-")
    ELSE Handled(self, cf, <<>>, FALSE, "-")

\* The render-result arms without the Lost arm: Lost is only printed.
render_result_arm_lost_printed(r, cf) ==
    IF r.result = "Ok" THEN
        Handled(r.self, cf, <<>>, FALSE, r.result)
    ELSE IF r.result = "OutOfMemory" THEN
        Handled(r.self, "Exit", <<>>, FALSE, r.result)
    ELSE Handled(r.self, cf, <<"eprintln">>, FALSE, r.result)

\* The render-result arms without the OutOfMemory arm: it is only printed.
render_result_arm_oom_printed(r, cf) ==
    IF r.result = "Ok" THEN
        Handled(r.self, cf, <<>>, FALSE, r.result)
    ELSE IF r.result = "Lost" THEN
        Handled(resize(r.self, r.self.size), cf,
                <<"resize">> \o resize_calls(r.self, r.self.size), FALSE, r.result)
    ELSE Handled(r.self, cf, <<"eprintln">>, FALSE, r.result)

\* The render-result arms where every error but Lost exits.
render_result_arm_errors_exit(r, cf) ==
    IF r.result = "Ok" THEN
        Handled(r.self, cf, <<>>, FALSE, r.result)
    ELSE IF r.result = "Lost" THEN
        Handled(resize(r.self, r.self.size), cf,
                <<"resize">> \o resize_calls(r.self, r.self.size), FALSE, r.result)
    ELSE Handled(r.self, "Exit", <<"eprintln">>, FALSE, r.result)

\* The render-result arms where the Lost arm passes the size with its width
\* and height exchanged.
render_result_arm_lost_transposed(r, cf) ==
    IF r.result = "Ok" THEN
        Handled(r.self, cf, <<>>, FALSE, r.result)
    ELSE IF r.result = "Lost" THEN
        Handled(resize(r.self, Size(r.self.size.height, r.self.size.width)), cf,
                <<"resize">> \o resize_calls(r.self, r.self.size), FALSE, r.result)
    ELSE IF r.result = "OutOfMemory" THEN
        Handled(r.self, "Exit", <<>>, FALSE, r.result)
    ELSE Handled(r.self, cf, <<"eprintln">>, FALSE, r.result)

\* The render-result arms where the Ok arm sets control_flow to Poll.
render_result_arm_ok_polls(r, cf) ==
    IF r.result = "Ok" THEN
        Handled(r.self, "Poll", <<>>, FALSE, r.result)
    ELSE IF r.result = "Lost" THEN
        Handled(resize(r.self, r.self.size), cf,
                <<"resize">> \o resize_calls(r.self, r.self.size), FALSE, r.result)
    ELSE IF r.result = "OutOfMemory" THEN
        Handled(r.self, "Exit", <<>>, FALSE, r.result)
    ELSE Handled(r.self, cf, <<"eprintln">>, FALSE, r.result)

\* The arms of `match state.render()`, r being what render returned.
render_result_arm(r, cf) ==
    IF r.result = "Ok" THEN
        Handled(r.self, cf, <<>>, FALSE, r.result)
    ELSE IF r.result = "Lost" THEN
        Handled(resize(r.self, r.self.size), cf,
                <<"resize">> \o resize_calls(r.self, r.self.size), FALSE, r.result)
    ELSE IF r.result = "OutOfMemory" THEN
        Handled(r.self, "Exit", <<>>, FALSE, r.result)
    ELSE Handled(r.self, cf, <<"eprintln">>, FALSE, r.result)

\* The MainEventsCleared arm without window.request_redraw().
main_events_cleared_arm_idle(self, cf) ==
    Handled(self, cf, <<>>, FALSE, "-")

\* The Event::MainEventsCleared arm.
main_events_cleared_arm(self, cf) ==
    Handled(self, cf, <<"request_redraw">>, TRUE, "-")

\* The Event::RedrawRequested arm.
redraw_arm(self, cf, acquire) ==
    LET updated == update(self)
        r == render(updated, acquire)
        h == render_result_arm(r, cf)
    IN  [h EXCEPT !.calls = <<"update", "render">> \o r.calls \o <<"return">> \o @]

closure(event, self, cf, acquire) ==
    IF IsWindowEvent(event) THEN
        LET i == input(self, event)
        IN  IF ~i.consumed THEN
                LET h == window_event_arm(event, i.self, cf)
                IN  [h EXCEPT !.calls = <<"input">> \o @]
            ELSE Handled(i.self, cf, <<"input">>, FALSE, "-")
    ELSE IF event.kind = "RedrawRequested" THEN
        redraw_arm(self, cf, acquire)
    ELSE IF event.kind = "MainEventsCleared" THEN
        main_events_cleared_arm(self, cf)
    ELSE Handled(self, cf, <<>>, FALSE, "-")

----------------------------------------------------------------------------
(* The program *)

Init ==
    /\ phase = "start"
    /\ state = NoState
    /\ control_flow = "Poll"
    /\ stage = "events"
    /\ redraw_requested = FALSE
    /\ ticks = 0
    /\ calls = <<>>
    /\ last = [event |-> PlainEv("-"), result |-> "-"]
    /\ last_resize = [called |-> FALSE, size |-> Size(0, 0)]
    /\ reported = [seen |-> FALSE, size |-> Size(0, 0)]
    /\ exit_by = "-"
    /\ renders = 0
    /\ last_render = "-"

\* run() up to event_loop.run: State::new(&window).await
Start(inner_size, adapter, device, formats) ==
    /\ phase = "start"
    /\ LET n == new(inner_size, adapter, device, formats)
       IN  /\ state' = n.self
           /\ calls' = n.calls
           /\ phase' = IF n.outcome = "ok" THEN "running" ELSE "aborted"
           /\ reported' = [seen |-> FALSE, size |-> inner_size]
    /\ last' = [event |-> PlainEv("Init"), result |-> "-"]
    /\ UNCHANGED <<control_flow, stage, redraw_requested, ticks, last_resize,
                   exit_by, renders, last_render>>

\* The event loop hands `event` to the closure.
Dispatch(event, acquire) ==
    LET h == closure(event, state, control_flow, acquire)
    IN  /\ state' = h.state
        /\ control_flow' = h.control_flow
        /\ calls' = h.calls
        /\ last' = [event |-> event, result |-> h.result]
        /\ redraw_requested' = IF h.request_redraw THEN TRUE
                               ELSE IF event.kind = "RedrawRequested" THEN FALSE
                               ELSE redraw_requested
        /\ exit_by' = IF control_flow # "Exit" /\ h.control_flow = "Exit"
                      THEN event.kind ELSE exit_by
        /\ renders' = renders + Count(h.calls, "render")
        /\ last_render' = IF h.result = "-" THEN last_render ELSE h.result
        /\ last_resize' =
               IF Count(h.calls, "resize") = 0 THEN last_resize
               ELSE [called |-> TRUE,
                     size |-> IF IsWindowEvent(event) THEN event.size ELSE state.size]
        /\ reported' =
               IF event.kind \in {"Resized", "ScaleFactorChanged"} /\ NonZero(event.size)
               THEN [seen |-> TRUE, size |-> event.size]
               ELSE reported

\* A window event (close, key, resize, scale factor, other) is delivered.
WindowEvent(event) ==
    /\ phase = "running"
    /\ stage = "events"
    /\ Dispatch(event, "-")
    /\ phase' = IF Fatal(state') THEN "aborted" ELSE phase
    /\ UNCHANGED <<stage, ticks>>

\* Event::MainEventsCleared: all window events of this iteration are handled.
MainEventsCleared ==
    /\ phase = "running"
    /\ stage = "events"
    /\ Dispatch(PlainEv("MainEventsCleared"), "-")
    /\ stage' = "redraw"
    /\ UNCHANGED <<phase, ticks>>

\* Event::RedrawRequested: the redraw tick.
RedrawRequested(acquire) ==
    /\ phase = "running"
    /\ stage = "redraw"
    /\ redraw_requested
    /\ Dispatch(PlainEv("RedrawRequested"), acquire)
    /\ phase' = IF Fatal(state') THEN "aborted" ELSE phase
    /\ UNCHANGED <<stage, ticks>>

\* Event::RedrawEventsCleared ends the iteration; the loop then looks at
\* control_flow and either stops or starts the next iteration.
RedrawEventsCleared ==
    /\ phase = "running"
    /\ stage = "redraw"
    /\ ~redraw_requested
    /\ control_flow = "Exit" \/ ticks < MaxTicks
    /\ Dispatch(PlainEv("RedrawEventsCleared"), "-")
    /\ IF control_flow = "Exit"
       THEN phase' = "exited" /\ UNCHANGED <<stage, ticks>>
       ELSE phase' = phase /\ stage' = "events" /\ ticks' = ticks + 1

\* Event::LoopDestroyed: a loop that has seen Exit may stop before the
\* iteration's remaining events are delivered.
LoopDestroyed ==
    /\ phase = "running"
    /\ control_flow = "Exit"
    /\ Dispatch(PlainEv("LoopDestroyed"), "-")
    /\ phase' = "exited"
    /\ UNCHANGED <<stage, ticks>>

Next ==
    \/ \E sz \in PhysicalSize, a \in BOOLEAN, d \in BOOLEAN, f \in FormatLists :
          Start(sz, a, d, f)
    \/ \E e \in WindowEvents : WindowEvent(e)
    \/ MainEventsCleared
    \/ \E acq \in AcquireResult : RedrawRequested(acq)
    \/ RedrawEventsCleared
    \/ LoopDestroyed

Spec == Init /\ [][Next]_vars

\* The event loop keeps going: once the window events of an iteration are
\* drained it delivers MainEventsCleared, it serves a requested redraw, and
\* it ends the iteration.
FairSpec ==
    /\ Spec
    /\ WF_vars(MainEventsCleared)
    /\ WF_vars(\E acq \in AcquireResult : RedrawRequested(acq))
    /\ WF_vars(RedrawEventsCleared)

----------------------------------------------------------------------------
(* Properties *)

ResizeKinds == {"Resized", "ScaleFactorChanged"}

\* Width and height of a SurfaceConfiguration, as a size.
Extent(config) == Size(config.width, config.height)

\* The last handled event was a redraw tick whose render returned `result`.
RenderedWith(result) == last.event.kind = "RedrawRequested" /\ last.result = result

\* C1: a resize event with a zero width or a zero height changes nothing: the
\* State struct (size, config, and the surface with the config the backend
\* holds) is the same afterwards, no configure call is made and the loop goes on.
C1_ZeroResizeIsNoOp ==
    [][(/\ phase = "running"
        /\ last'.event.kind \in ResizeKinds
        /\ ~NonZero(last'.event.size))
       => /\ state' = state
          /\ ~Has(calls', "configure")
          /\ phase' = "running"]_vars

C1_Witness ==
    /\ phase = "running"
    /\ last.event = Ev("Resized", Size(0, 2), "-", "-")
    /\ Has(calls, "resize")
    /\ state.size = Size(2, 1)
    /\ Extent(state.config) = Size(2, 1)

\* C2: whenever the most recent resize call had a non-zero size, the State's
\* config and the config last submitted to the backend carry that width and
\* that height (and the stored size is that size).
C2_LastNonZeroResizeWins ==
    (last_resize.called /\ NonZero(last_resize.size))
    => /\ Extent(state.config) = last_resize.size
       /\ state.surface.configured
       /\ Extent(state.surface.config) = last_resize.size
       /\ state.size = last_resize.size

\* A scale-factor change to 1x2 in the second iteration of the loop, after a
\* frame was rendered at the size of the first iteration.
C2_Witness ==
    /\ last_resize = [called |-> TRUE, size |-> Size(1, 2)]
    /\ last.event = Ev("ScaleFactorChanged", Size(1, 2), "-", "-")
    /\ ticks = 1
    /\ last_render = "Ok"
    /\ Extent(state.config) = Size(1, 2)
    /\ Extent(state.surface.config) = Size(1, 2)

\* C3: (as claimed) the backend never holds a config with a zero width or a
\* zero height: none is ever submitted, by State::new or by resize.
C3_NeverZeroAreaSubmitted ==
    state.surface.configured => ~ZeroArea(state.surface.config)

\* C4: (as claimed) whenever the backend surface has been configured, a
\* non-zero resize event has been delivered and the submitted width and height
\* are those of the most recent one.  Stated for the runs that reach the event
\* loop only, where the initial config has no zero dimension.
C4_ConfiguredAsLastResizeEvent ==
    (phase = "running" /\ state.surface.configured)
    => /\ reported.seen
       /\ Extent(state.surface.config) = reported.size

\* C4 (amended): the config the backend holds has the width and height of the
\* most recent non-zero resize event, or of the window's inner size read by
\* State::new when no such event has been delivered.
C4_ConfiguredAsLastReportedSize ==
    state.surface.configured => Extent(state.surface.config) = reported.size

\* A Lost recovery after a resize event to 2x2.
C4_Witness ==
    /\ RenderedWith("Lost")
    /\ Has(calls, "configure")
    /\ reported.seen
    /\ reported.size = Size(2, 2)
    /\ Extent(state.surface.config) = Size(2, 2)

\* C5: a redraw tick whose acquire returned Lost makes exactly these calls:
\* update, render, get_current_texture, render's return, resize, configure;
\* so nothing is recorded, submitted or presented, and the reconfiguration
\* comes before the next event.  The config submitted has the stored size,
\* which is non-zero and is the last size reported.
C5_LostReconfigures ==
    RenderedWith("Lost")
    => /\ calls = <<"update", "render", "get_current_texture", "return",
                    "resize", "configure">>
       /\ NonZero(state.size)
       /\ Extent(state.surface.config) = state.size
       /\ state.size = reported.size

C5_Witness ==
    /\ RenderedWith("Lost")
    /\ Len(calls) = 6
    /\ calls[6] = "configure"
    /\ state.size = Size(1, 2)
    /\ Extent(state.surface.config) = Size(1, 2)

\* C6: a redraw tick whose acquire returned OutOfMemory leaves control_flow
\* at Exit and makes exactly these calls: update, render, one
\* get_current_texture, render's return; nothing is recorded, submitted or
\* presented and get_current_texture is not called a second time.
C6_OutOfMemoryExits ==
    RenderedWith("OutOfMemory")
    => /\ control_flow = "Exit"
       /\ calls = <<"update", "render", "get_current_texture", "return">>

C6_Witness ==
    /\ RenderedWith("OutOfMemory")
    /\ control_flow = "Exit"
    /\ exit_by = "RedrawRequested"
    /\ Count(calls, "get_current_texture") = 1

\* C7: a redraw tick whose acquire returned Timeout or Outdated leaves the
\* State struct and control_flow as they were, only prints the error after
\* the failed acquire, and leaves the loop running; and the redraw tick that
\* follows such an error calls render again.
C7_OtherErrorSkipsFrame ==
    [][phase = "running"
       => /\ (/\ last'.event.kind = "RedrawRequested"
              /\ last'.result \in {"Timeout", "Outdated"})
             => /\ state' = state
                /\ control_flow' = control_flow
                /\ calls' = <<"update", "render", "get_current_texture",
                              "return", "eprintln">>
                /\ phase' = "running"
          /\ (/\ last_render \in {"Timeout", "Outdated"}
              /\ last'.event.kind = "RedrawRequested")
             => /\ renders' = renders + 1
                /\ Count(calls', "render") = 1]_vars

\* The first render failed with Timeout, nothing was submitted or presented,
\* and the loop has reached the redraw tick of its next iteration.
C7_Witness ==
    /\ phase = "running"
    /\ last_render = "Timeout"
    /\ renders = 1
    /\ state.queue.submitted = 0
    /\ state.surface.presented = 0
    /\ control_flow = "Poll"
    /\ ticks = 1
    /\ stage = "redraw"
    /\ redraw_requested

\* C8: a redraw tick whose acquire succeeded makes exactly these calls, once
\* each and in this order: update, render, get_current_texture, create_view,
\* create_command_encoder, begin_render_pass, finish, submit, present,
\* render's return (Ok).  The command buffer submitted draws to the frame
\* acquired and that frame is the one presented; acquires, submissions and
\* presents are equal in number, and after the first render they are 1.
C8_SuccessfulFrame ==
    RenderedWith("Ok")
    => /\ calls = <<"update", "render", "get_current_texture", "create_view",
                    "create_command_encoder", "begin_render_pass", "finish",
                    "submit", "present", "return">>
       /\ state.queue.target = state.surface.acquired
       /\ state.surface.shown = state.surface.acquired
       /\ state.queue.submitted = state.surface.acquired
       /\ state.surface.presented = state.surface.acquired
       /\ (renders = 1 => (state.queue.submitted = 1 /\ state.surface.presented = 1))

C8_Witness ==
    /\ RenderedWith("Ok")
    /\ renders = 1
    /\ state.queue.submitted = 1
    /\ state.surface.presented = 1
    /\ state.size = Size(2, 1)

\* The event is a close request or a press of Escape.
UserExit(event) ==
    \/ event.kind = "CloseRequested"
    \/ /\ event.kind = "KeyboardInput"
       /\ event.state = "Pressed"
       /\ event.virtual_keycode = "Escape"

\* C9: (as claimed) handling a close request or a press of Escape sets
\* control_flow to Exit, and once one of them has set it no render call is
\* made any more.
C9_NoRenderAfterUserExit ==
    [][/\ (phase = "running" /\ UserExit(last'.event)) => control_flow' = "Exit"
       /\ (control_flow = "Exit" /\ exit_by \in {"CloseRequested", "KeyboardInput"})
          => renders' = renders]_vars

\* C10: control_flow turns to Exit only in the handling of a close request,
\* of a press of Escape, or of a redraw tick whose render returned
\* OutOfMemory.
C10_ExitOnlyFromThree ==
    [][(control_flow # "Exit" /\ control_flow' = "Exit")
       => \/ UserExit(last'.event)
          \/ /\ last'.event.kind = "RedrawRequested"
             /\ last'.result = "OutOfMemory"]_vars

C10_Witness ==
    /\ control_flow = "Exit"
    /\ exit_by = "KeyboardInput"
    /\ last.event = Ev("KeyboardInput", Size(0, 0), "Pressed", "Escape")

\* C11: a redraw tick calls update once and then render once, update first,
\* and update returns the State struct it was given, in every state reached.
C11_UpdateThenRenderOnce ==
    /\ update(state) = state
    /\ last.event.kind = "RedrawRequested"
       => /\ Count(calls, "update") = 1
          /\ Count(calls, "render") = 1
          /\ calls[1] = "update"
          /\ calls[2] = "render"
          /\ Count(calls, "get_current_texture") = 1

\* The second redraw tick, after a resize to 1x2: update, then a render that
\* succeeds at that size.
C11_Witness ==
    /\ RenderedWith("Ok")
    /\ renders = 2
    /\ calls[1] = "update"
    /\ state.size = Size(1, 2)
    /\ reported.seen

\* C12: input returns false and returns the State struct unchanged, for every
\* window event in every state reached; so the handling of a window event
\* starts with input and goes on to the event's arm: a close request or a press
\* of Escape leaves control_flow at Exit and a resize event calls resize.
C12_InputNeverConsumes ==
    /\ \A e \in WindowEvents :
          /\ ~input(state, e).consumed
          /\ input(state, e).self = state
    /\ IsWindowEvent(last.event)
       => /\ calls[1] = "input"
          /\ UserExit(last.event) => control_flow = "Exit"
          /\ last.event.kind \in ResizeKinds
             => /\ Len(calls) >= 2
                /\ calls[2] = "resize"
                /\ last_resize = [called |-> TRUE, size |-> last.event.size]

\* A press of Escape in the second iteration reached its arm.
C12_Witness ==
    /\ last.event = Ev("KeyboardInput", Size(0, 0), "Pressed", "Escape")
    /\ calls = <<"input">>
    /\ control_flow = "Exit"
    /\ ticks = 1
    /\ renders = 1

\* C13: in every state between two events (and so when control_flow is set
\* to Exit) no acquired frame is outstanding: as many frames have been
\* presented as acquired and as many command buffers submitted, the frame
\* last presented is the frame last acquired, and the command buffer last
\* submitted draws to that frame and not to an earlier one.
C13_NoFrameOutstanding ==
    /\ state.surface.presented = state.surface.acquired
    /\ state.queue.submitted = state.surface.acquired
    /\ state.surface.shown = state.surface.acquired
    /\ state.queue.target = state.surface.acquired
    /\ state.surface.acquired <= renders

\* One frame rendered, then a render that ended in OutOfMemory and set Exit.
C13_Witness ==
    /\ RenderedWith("OutOfMemory")
    /\ control_flow = "Exit"
    /\ renders = 2
    /\ state.surface.acquired = 1
    /\ state.surface.presented = 1
    /\ state.queue.submitted = 1

\* C14: whenever a redraw tick is about to be handled (its render will call
\* get_current_texture), the backend surface is configured with the width
\* and height of the latest non-zero resize event, or of the initial inner
\* size if there was none, and that size is non-zero: every resize delivered
\* before the tick has been applied in full.
C14_AcquireSeesLatestSize ==
    (phase = "running" /\ stage = "redraw" /\ redraw_requested)
    => /\ state.surface.configured
       /\ NonZero(reported.size)
       /\ Extent(state.surface.config) = reported.size

\* A redraw tick pending right after resizes whose last non-zero one was 2x1.
C14_Witness ==
    /\ phase = "running"
    /\ stage = "redraw"
    /\ redraw_requested
    /\ last.event.kind = "MainEventsCleared"
    /\ reported = [seen |-> TRUE, size |-> Size(2, 1)]
    /\ last_resize = [called |-> TRUE, size |-> Size(0, 0)]
    /\ Extent(state.surface.config) = Size(2, 1)

\* window.request_redraw() is called by the MainEventsCleared arm, once, and
\* by no other arm; an iteration calls render at most once, so the renders
\* so far are one per completed iteration plus the one of this iteration.
OneRedrawPerCycle ==
    /\ Count(calls, "request_redraw")
          = (IF last.event.kind = "MainEventsCleared" THEN 1 ELSE 0)
    /\ phase = "running"
       => renders = (IF stage = "redraw" /\ ~redraw_requested THEN ticks + 1 ELSE ticks)

\* C15: a redraw is requested once per iteration, by MainEventsCleared, and
\* under fair dispatch every iteration that starts with control_flow not at
\* Exit leads to a render call (a handled redraw tick) or to Exit, whatever
\* the earlier renders returned.
C15_RenderEveryCycle ==
    /\ []OneRedrawPerCycle
    /\ (phase = "running" /\ stage = "events" /\ control_flow = "Poll")
          ~> (last.event.kind = "RedrawRequested" \/ control_flow = "Exit")

\* The second iteration rendered although the first render returned Lost or
\* another error: here the second one returns Lost and the loop is running.
C15_Witness ==
    /\ phase = "running"
    /\ RenderedWith("Lost")
    /\ renders = 2
    /\ ticks = 1
    /\ control_flow = "Poll"
    /\ ~redraw_requested

\* The calls of a State::new that ran to its end.
InitCalls == <<"create_surface", "request_adapter", "request_device",
               "get_supported_formats", "configure">>

\* C16: State::new runs once and asks once for the adapter and at most once
\* for the device.  A run without a device (the adapter or the device request
\* failed) has aborted with the surface never configured, no event handled
\* and no render call.  A run that got both made one configure call in
\* State::new, before any event; the event loop runs only with a device and
\* a configured surface, so that configure precedes every render call.
C16_InitOnceOrAbort ==
    /\ phase = "start" => (last.event.kind = "-" /\ calls = <<>>)
    /\ (phase # "start" /\ state.device # "Device")
       => /\ phase = "aborted"
          /\ last.event.kind = "Init"
          /\ calls \in {<<"create_surface", "request_adapter">>,
                        <<"create_surface", "request_adapter", "request_device">>}
          /\ ~state.surface.configured
          /\ renders = 0
    /\ (last.event.kind = "Init" /\ state.device = "Device")
       => /\ calls = InitCalls
          /\ state.surface.configured
          /\ renders = 0
    /\ phase \in {"running", "exited"}
       => (state.device = "Device" /\ state.surface.configured)
    /\ renders > 0 => state.surface.configured

\* The device request failed: the run has aborted right after it.
C16_Witness ==
    /\ phase = "aborted"
    /\ calls = <<"create_surface", "request_adapter", "request_device">>
    /\ ~state.surface.configured
    /\ state.device = "-"
    /\ renders = 0

\* C17: a resize event with a non-zero size changes the stored size, the
\* config's width and height and the config the backend holds, and nothing
\* else of the State struct; and in every state the config and the config
\* submitted carry the usage, the format (the first one supported) and the
\* present mode that State::new chose.
C17_ResizeKeepsTheRest ==
    [][/\ state'.surface.configured
          => \A c \in {state'.config, state'.surface.config} :
                /\ c.usage = "RENDER_ATTACHMENT"
                /\ \A f \in FormatLists : c.format = f[1]
                /\ c.present_mode = "Fifo"
       /\ (/\ phase = "running"
           /\ last'.event.kind \in ResizeKinds
           /\ NonZero(last'.event.size))
          => LET config == [state.config EXCEPT !.width = last'.event.size.width,
                                                !.height = last'.event.size.height]
             IN  state' = [state EXCEPT !.size = last'.event.size,
                                        !.config = config,
                                        !.surface.config = config]]_vars

\* A resize to 1x2 of a surface that has presented a frame at another size.
C17_Witness ==
    /\ last.event = Ev("Resized", Size(1, 2), "-", "-")
    /\ state.size = Size(1, 2)
    /\ state.surface.config.format = "Bgra8UnormSrgb"
    /\ state.surface.config.present_mode = "Fifo"
    /\ state.surface.config.usage = "RENDER_ATTACHMENT"
    /\ state.surface.presented = 1
    /\ last_render = "Ok"

\* C18: once State::new has built the struct, the config's width and height
\* are those of the stored size.
C18_ConfigMatchesSize ==
    state.surface.configured => Extent(state.config) = state.size

\* After a scale-factor change to 2x1 and a render that timed out.
C18_Witness ==
    /\ RenderedWith("Timeout")
    /\ reported = [seen |-> TRUE, size |-> Size(2, 1)]
    /\ state.size = Size(2, 1)
    /\ Extent(state.config) = Size(2, 1)

\* C19: the handling of a redraw tick leaves the stored size and the config
\* as they were, whatever render returned; after Lost the config the backend
\* holds is that same config, after anything else the backend's config is
\* untouched too.  And resize with a size that has a zero dimension, the
\* other branch of the Lost recovery, returns the struct unchanged.
C19_RenderKeepsSizeAndConfig ==
    [][(phase = "running" /\ last'.event.kind = "RedrawRequested")
       => /\ state'.size = state.size
          /\ state'.config = state.config
          /\ state'.surface.config = state.surface.config
          /\ state'.surface.config = state.config
          /\ last'.result = "Lost" => Has(calls', "configure")
          /\ last'.result # "Lost" => ~Has(calls', "resize")
          /\ \A sz \in PhysicalSize :
                ~NonZero(sz) => resize([state EXCEPT !.size = sz], sz)
                                   = [state EXCEPT !.size = sz]]_vars

\* A Lost recovery at 2x1 in the second iteration, one frame presented before.
C19_Witness ==
    /\ RenderedWith("Lost")
    /\ state.size = Size(2, 1)
    /\ state.config.width = 2
    /\ state.config.height = 1
    /\ state.surface.presented = 1
    /\ renders = 2

\* C20: once control_flow is Exit, no event the closure handles sets it to
\* another value.
C20_ExitIsSticky ==
    [][control_flow = "Exit" => control_flow' = "Exit"]_vars

\* A resize and then a successful render, both handled after a close request
\* had set Exit.
C20_Witness ==
    /\ control_flow = "Exit"
    /\ exit_by = "CloseRequested"
    /\ RenderedWith("Ok")
    /\ last_resize = [called |-> TRUE, size |-> Size(2, 2)]
    /\ state.size = Size(2, 2)

====
